---- MODULE Spec2Model ----
(***************************************************************************)
(* rusty_web: the HTTP/1.1 request scanner (parse_request), the request    *)
(* adapter (HttpRequest::try_from) and the response encoder                *)
(* (Response::into_bytes) of src/http/mod.rs.                              *)
(*                                                                         *)
(* Bytes are naturals 0..255, byte strings are sequences of bytes, offsets *)
(* are 0-based as in the source and Slice(s, a, b) is the source's         *)
(* s[a..b].  Option values are sequences: None is <<>>, Some(x) is <<x>>.  *)
(***************************************************************************)
EXTENDS Integers, Sequences, FiniteSets, TLC

VARIABLES
    inp,        \* the pieces the bytes on the wire were assembled from
    buffer,     \* parse_request's `buffer` argument
    headers,    \* parse_request's `headers` argument: the caller's storage
    result,     \* what the last call of parse_request returned
    borrowed,   \* the Request handed to HttpRequest::try_from
    owned,      \* what HttpRequest::try_from returned
    response,   \* the Response being built
    wire,       \* what Response::into_bytes returned
    retried,    \* whether an earlier scan of these bytes returned Partial
    pc          \* where the caller is

vars == <<inp, buffer, headers, result, borrowed, owned, response, wire, retried, pc>>

---------------------------------------------------------------------------
(* Bounds of the model *)

\* usize is scaled to WordBits bits; the target's is 64
WordBits == 8
\* header lines in a generated request, and slots of the header storage
MaxHeaderLines == 2
\* body bytes present after the blank line
MaxBody == 3
\* length of the unstructured buffers
MaxRaw == 3

---------------------------------------------------------------------------
(* Bytes *)

CR == 13
LF == 10
SP == 32
TAB == 9
COLON == 58

\* the printable ASCII characters, Chars[i] having code 31 + i
Chars == << " ", "!", "dquote", "#", "$", "%", "&", "'", "(", ")", "*", "+", ",",
            "-", ".", "/", "0", "1", "2", "3", "4", "5", "6", "7", "8", "9",
            ":", ";", "<", "=", ">", "?", "@", "A", "B", "C", "D", "E", "F",
            "G", "H", "I", "J", "K", "L", "M", "N", "O", "P", "Q", "R", "S",
            "T", "U", "V", "W", "X", "Y", "Z", "[", "backslash", "]", "^", "_", "backtick",
            "a", "b", "c", "d", "e", "f", "g", "h", "i", "j", "k", "l", "m",
            "n", "o", "p", "q", "r", "s", "t", "u", "v", "w", "x", "y", "z",
            "{", "|", "}", "~" >>

Ord(c) == 31 + (CHOOSE i \in 1..Len(Chars) : Chars[i] = c)

\* the bytes of a text given as a tuple of characters
Str(t) == [i \in 1..Len(t) |-> Ord(t[i])]

CRLF == <<CR, LF>>

\* a byte that is part of no UTF-8 text
NonText == <<255>>

UpperA == Ord("A")
UpperZ == Ord("Z")
LowerA == Ord("a")
Digit0 == Ord("0")
Digit9 == Ord("9")
Plus == Ord("+")
Minus == Ord("-")

GET_ == Str(<<"G", "E", "T">>)
POST_ == Str(<<"P", "O", "S", "T">>)
PUT_ == Str(<<"P", "U", "T">>)
DELETE_ == Str(<<"D", "E", "L", "E", "T", "E">>)
HEAD_ == Str(<<"H", "E", "A", "D">>)
OPTIONS_ == Str(<<"O", "P", "T", "I", "O", "N", "S">>)
CONNECT_ == Str(<<"C", "O", "N", "N", "E", "C", "T">>)
PATCH_ == Str(<<"P", "A", "T", "C", "H">>)
TRACE_ == Str(<<"T", "R", "A", "C", "E">>)

ContentLengthName == Str(<<"C", "o", "n", "t", "e", "n", "t", "-",
                           "L", "e", "n", "g", "t", "h">>)

HttpVersion == Str(<<"H", "T", "T", "P", "/", "1", ".", "1">>)
OK_ == Str(<<"O", "K">>)
NotFound_ == Str(<<"N", "o", "t", " ", "F", "o", "u", "n", "d">>)
BadRequest_ == Str(<<"B", "a", "d", " ", "R", "e", "q", "u", "e", "s", "t">>)
ContentTypeName == Str(<<"C", "o", "n", "t", "e", "n", "t", "-", "T", "y", "p", "e">>)
TextHtml == Str(<<"t", "e", "x", "t", "/", "h", "t", "m", "l">>)
NotFoundBody == Str(<<"<", "h", "1", ">", "4", "0", "4", " ", "N", "o", "t", " ", "F", "o", "u", "n", "d", "<", "/", "h", "1", ">">>)
BadRequestBody == Str(<<"<", "h", "1", ">", "4", "0", "0", " ", "B", "a", "d", " ", "R", "e", "q", "u", "e", "s", "t", "<", "/", "h", "1", ">">>)

None == <<>>
Some(x) == <<x>>

Min(S) == CHOOSE x \in S : \A y \in S : x <= y

Pow2(n) == 2 ^ n

UsizeMax == Pow2(WordBits) - 1

---------------------------------------------------------------------------
(* Slices and the standard-library functions the scanner calls *)

Slice(s, a, b) == SubSeq(s, a + 1, b)

SliceFrom(s, a) == SubSeq(s, a + 1, Len(s))

\* iter().position(|&b| b == x)
PositionOf(s, x) ==
    LET hits == {i \in 0..(Len(s) - 1) : s[i + 1] = x}
    IN  IF hits = {} THEN None ELSE Some(Min(hits))

\* slice::split(|&b| b == sep), collected
RECURSIVE Split(_, _)
Split(s, sep) ==
    LET p == PositionOf(s, sep)
    IN  IF p = None THEN <<s>>
        ELSE <<Slice(s, 0, p[1])>> \o Split(SliceFrom(s, p[1] + 1), sep)

\* parts.next().filter(|s| !s.is_empty()), for the i-th call of next()
NextPart(parts, i) ==
    IF i <= Len(parts) /\ parts[i] # <<>> THEN Some(parts[i]) ELSE None

\* str::from_utf8(s).is_ok()
RECURSIVE IsUtf8(_)
IsUtf8(s) ==
    IF s = <<>> THEN TRUE
    ELSE LET b == s[1]
             In(i, lo, hi) == i <= Len(s) /\ s[i] >= lo /\ s[i] <= hi
             Rest(n) == IsUtf8(SliceFrom(s, n))
         IN  IF b < 128 THEN Rest(1)
             ELSE IF b \in 194..223 THEN In(2, 128, 191) /\ Rest(2)
             ELSE IF b = 224 THEN In(2, 160, 191) /\ In(3, 128, 191) /\ Rest(3)
             ELSE IF b \in (225..236) \cup {238, 239}
                  THEN In(2, 128, 191) /\ In(3, 128, 191) /\ Rest(3)
             ELSE IF b = 237 THEN In(2, 128, 159) /\ In(3, 128, 191) /\ Rest(3)
             ELSE IF b = 240
                  THEN In(2, 144, 191) /\ In(3, 128, 191) /\ In(4, 128, 191) /\ Rest(4)
             ELSE IF b \in 241..243
                  THEN In(2, 128, 191) /\ In(3, 128, 191) /\ In(4, 128, 191) /\ Rest(4)
             ELSE IF b = 244
                  THEN In(2, 128, 143) /\ In(3, 128, 191) /\ In(4, 128, 191) /\ Rest(4)
             ELSE FALSE

\* u8::to_ascii_lowercase
AsciiLower(b) == IF b >= UpperA /\ b <= UpperZ THEN b + (LowerA - UpperA) ELSE b

\* str::eq_ignore_ascii_case
EqIgnoreAsciiCase(a, b) ==
    /\ Len(a) = Len(b)
    /\ \A i \in 1..Len(a) : AsciiLower(a[i]) = AsciiLower(b[i])

\* the digit loop of usize::from_str: checked_mul(10) then checked_add(digit)
RECURSIVE ParseDigits(_, _)
ParseDigits(s, acc) ==
    IF s = <<>> THEN Some(acc)
    ELSE IF s[1] < Digit0 \/ s[1] > Digit9 THEN None
    ELSE LET n == acc * 10 + (s[1] - Digit0)
         IN  IF n > UsizeMax THEN None ELSE ParseDigits(Tail(s), n)

\* str::parse::<usize>: an empty text and a lone sign are errors, a leading
\* '+' is skipped, a '-' is no digit of an unsigned type
ParseUsize(s) ==
    IF s = <<>> THEN None
    ELSE IF Len(s) = 1 /\ s[1] \in {Plus, Minus} THEN None
    ELSE IF s[1] = Plus THEN ParseDigits(Tail(s), 0)
    ELSE ParseDigits(s, 0)

\* a trim of both ends, where the source trims the start only
TrimBothEnds(s) ==
    LET hits == {i \in 1..Len(s) : s[i] # SP /\ s[i] # TAB}
    IN  IF hits = {} THEN <<>>
        ELSE SubSeq(s, Min(hits), CHOOSE i \in hits : \A j \in hits : j <= i)

\* TrimStart::trim_start for [u8]
TrimStart(s) ==
    LET hits == {i \in 0..(Len(s) - 1) : s[i + 1] # SP /\ s[i + 1] # TAB}
    IN  IF hits = {} THEN <<>> ELSE SliceFrom(s, Min(hits))

\* a search that takes a lone CR for the end of a line
FindCr(s) ==
    LET hits == {i \in 0..(Len(s) - 1) : s[i + 1] = CR}
    IN  IF hits = {} THEN None ELSE Some(Min(hits))

\* find_crlf: buffer.windows(2).position(|w| w == b"\r\n"), the windows
\* tried from offset i on
RECURSIVE Windows2Position(_, _)
Windows2Position(s, i) ==
    IF i + 2 > Len(s) THEN None
    ELSE IF s[i + 1] = CR /\ s[i + 2] = LF THEN Some(i)
    ELSE Windows2Position(s, i + 1)

FindCrlf(s) == Windows2Position(s, 0)

---------------------------------------------------------------------------
(* parse_request *)

Err(e) == [kind |-> "Err", err |-> e]

\* an unrecoverable fault: the thread panics
Panic(f) == [kind |-> "Panic", fault |-> f]

Header(name, value) == [name |-> name, value |-> value]

\* a storage taken for full one header early
StorageFullEarly(header_count, hdrs) == header_count + 1 >= Len(hdrs)

\* if header_count >= headers.len()
StorageFull(header_count, hdrs) == header_count >= Len(hdrs)

\* the header loop of parse_request, from the state at the top of one
\* iteration; `out` is None when the loop breaks and the early return otherwise
RECURSIVE HeaderLoop(_, _, _, _)
HeaderLoop(buf, cursor, header_count, hdrs) ==
    LET e == FindCrlf(SliceFrom(buf, cursor))
        Stop(r) == [out |-> Some(r), cursor |-> cursor,
                    header_count |-> header_count, headers |-> hdrs]
    IN
    IF cursor > Len(buf) THEN Stop(Panic("slice_index"))
    ELSE IF e = None THEN Stop(Err("Partial"))
    ELSE LET header_line_end == e[1] IN
    IF header_line_end = 0
    THEN [out |-> None, cursor |-> cursor + 2,
          header_count |-> header_count, headers |-> hdrs]
    ELSE IF StorageFull(header_count, hdrs) THEN Stop(Err("TooManyHeaders"))
    ELSE LET header_line == Slice(buf, cursor, cursor + header_line_end)
             colon == PositionOf(header_line, COLON)
         IN
    IF colon = None THEN Stop(Err("InvalidHeader"))
    ELSE LET colon_pos == colon[1]
             name == Slice(header_line, 0, colon_pos)
             value_start == colon_pos + 1
             value == TrimStart(SliceFrom(header_line, value_start))
         IN
    IF ~IsUtf8(name) THEN Stop(Err("InvalidHeader"))
    ELSE HeaderLoop(buf, cursor + header_line_end + 2, header_count + 1,
                    [hdrs EXCEPT ![header_count + 1] = Header(name, value)])

\* a loop that lets the last Content-Length header decide, not the first
ContentLengthOfLast(parsed_headers) ==
    LET hits == {i \in 1..Len(parsed_headers) :
                    EqIgnoreAsciiCase(parsed_headers[i].name, ContentLengthName)}
    IN  IF hits = {} THEN Some(0)
        ELSE LET header == parsed_headers[CHOOSE i \in hits : \A j \in hits : j <= i]
             IN  IF ~IsUtf8(header.value) THEN None
                 ELSE ParseUsize(header.value)

\* the Content-Length loop: Some(length), or None for the InvalidHeader return
ContentLength(parsed_headers) ==
    LET hits == {i \in 1..Len(parsed_headers) :
                    EqIgnoreAsciiCase(parsed_headers[i].name, ContentLengthName)}
    IN  IF hits = {} THEN Some(0)
        ELSE LET header == parsed_headers[Min(hits)]
             IN  IF ~IsUtf8(header.value) THEN None
                 ELSE ParseUsize(header.value)

\* from the end of the header loop to the return; overflow_checks is the
\* build's setting (on in a debug build, off in a release build)
Finish(buf, method_bytes, path_bytes, version_bytes, cursor, parsed_headers, overflow_checks) ==
    LET cl == ContentLength(parsed_headers) IN
    IF cl = None THEN Err("InvalidHeader")
    ELSE LET content_length == cl[1]
             body_start == cursor
             sum == body_start + content_length
             total_request_size == sum % Pow2(WordBits)
         IN
    IF sum > UsizeMax /\ overflow_checks THEN Panic("add_overflow")
    ELSE IF Len(buf) < total_request_size THEN Err("Partial")
    ELSE IF body_start > total_request_size THEN Panic("slice_index")
    ELSE IF ~IsUtf8(method_bytes) THEN Err("InvalidMethod")
    ELSE IF ~IsUtf8(path_bytes) THEN Err("InvalidPath")
    ELSE IF ~IsUtf8(version_bytes) THEN Err("InvalidVersion")
    ELSE [kind |-> "Ok",
          request |-> [method |-> method_bytes,
                       path |-> path_bytes,
                       version |-> version_bytes,
                       headers |-> parsed_headers,
                       body |-> Slice(buf, body_start, total_request_size)],
          consumed |-> total_request_size]

\* parse_request(buffer, headers): the returned value and the storage after
ParseRequest(buf, hdrs, overflow_checks) ==
    LET Return(r, h) == [res |-> r, headers |-> h]
        rl == FindCrlf(SliceFrom(buf, 0))
    IN
    IF rl = None THEN Return(Err("Partial"), hdrs)
    ELSE LET request_line_end == rl[1]
             parts == Split(Slice(buf, 0, request_line_end), SP)
             method == NextPart(parts, 1)
             path == NextPart(parts, 2)
             version == NextPart(parts, 3)
         IN
    IF method = None THEN Return(Err("InvalidMethod"), hdrs)
    ELSE IF path = None THEN Return(Err("InvalidPath"), hdrs)
    ELSE IF version = None THEN Return(Err("InvalidVersion"), hdrs)
    ELSE LET loop == HeaderLoop(buf, request_line_end + 2, 0, hdrs) IN
    IF loop.out # None THEN Return(loop.out[1], loop.headers)
    ELSE Return(Finish(buf, method[1], path[1], version[1], loop.cursor,
                       SubSeq(loop.headers, 1, loop.header_count),
                       overflow_checks),
                loop.headers)

\* the decimal digits of n, as format!("{}", n) writes them
RECURSIVE Decimal(_)
Decimal(n) ==
    IF n < 10 THEN <<Digit0 + n>>
    ELSE Decimal(n \div 10) \o <<Digit0 + (n % 10)>>

---------------------------------------------------------------------------
(* HttpRequest::try_from *)

\* the match on borrowed_req.method
MethodOf(text) ==
    CASE text = GET_ -> Some("Get")
      [] text = POST_ -> Some("Post")
      [] text = PUT_ -> Some("Put")
      [] text = DELETE_ -> Some("Delete")
      [] text = HEAD_ -> Some("Head")
      [] text = OPTIONS_ -> Some("Options")
      [] text = CONNECT_ -> Some("Connect")
      [] text = PATCH_ -> Some("Patch")
      [] text = TRACE_ -> Some("Trace")
      [] OTHER -> None

\* str::to_lowercase on the texts of the model: the ASCII letters, and the
\* two-byte letters U+00C0..U+00DE (but U+00D7), whose lower case is 32 on
RECURSIVE ToLowercase(_)
ToLowercase(t) ==
    IF t = <<>> THEN <<>>
    ELSE IF t[1] = 195 /\ Len(t) >= 2
    THEN <<195, IF t[2] \in (128..158) \ {151} THEN t[2] + 32 ELSE t[2]>>
            \o ToLowercase(SliceFrom(t, 2))
    ELSE <<AsciiLower(t[1])>> \o ToLowercase(Tail(t))

\* an insert that keeps the value a key already has
InsertIfAbsent(map, key, value) ==
    [k \in DOMAIN map \cup {key} |-> IF k \in DOMAIN map THEN map[k] ELSE value]

\* HashMap::insert
Insert(map, key, value) ==
    [k \in DOMAIN map \cup {key} |-> IF k = key THEN value ELSE map[k]]

\* the body of the loop over borrowed_req.headers
InsertHeader(map, header) == Insert(map, ToLowercase(header.name), header.value)

\* the loop over borrowed_req.headers, from HashMap::new()
RECURSIVE CollectHeaders(_, _)
CollectHeaders(map, hs) ==
    IF hs = <<>> THEN map
    ELSE CollectHeaders(InsertHeader(map, hs[1]), Tail(hs))

EmptyMap == [k \in {} |-> <<>>]

\* HttpRequest::try_from(borrowed_req)
TryFrom(borrowed_req) ==
    LET method == MethodOf(borrowed_req.method) IN
    IF method = None THEN Err("InvalidMethod")
    ELSE [kind |-> "Ok",
          request |-> [method |-> method[1],
                       path |-> borrowed_req.path,
                       version |-> borrowed_req.version,
                       headers |-> CollectHeaders(EmptyMap, borrowed_req.headers),
                       body |-> borrowed_req.body]]

---------------------------------------------------------------------------
(* Response *)

\* Response::new
ResponseNew(status_code, status_text, body) ==
    [status_code |-> status_code, status_text |-> status_text,
     headers |-> EmptyMap, body |-> body]

\* res.headers.insert(name, value)
WithHeader(res, name, value) ==
    [res EXCEPT !.headers = Insert(res.headers, name, value)]

\* Response::ok
ResponseOk(body, content_type) ==
    WithHeader(ResponseNew(200, OK_, Some(body)), ContentTypeName, content_type)

\* Response::not_found
ResponseNotFound ==
    WithHeader(ResponseNew(404, NotFound_, Some(NotFoundBody)), ContentTypeName, TextHtml)

\* Response::bad_request
ResponseBadRequest ==
    WithHeader(ResponseNew(400, BadRequest_, Some(BadRequestBody)), ContentTypeName, TextHtml)

\* format!("HTTP/1.1 {} {}\r\n", self.status_code, self.status_text)
StatusLine(res) ==
    HttpVersion \o <<SP>> \o Decimal(res.status_code) \o <<SP>> \o res.status_text \o CRLF

\* format!("{}: {}\r\n", name, value)
HeaderLine(name, value) == name \o <<COLON, SP>> \o value \o CRLF

\* the loop over &self.headers, the entries in the order the map yields them
RECURSIVE HeaderLinesOf(_, _)
HeaderLinesOf(res, order) ==
    IF order = <<>> THEN <<>>
    ELSE HeaderLine(order[1], res.headers[order[1]]) \o HeaderLinesOf(res, Tail(order))

\* self.body.as_ref().map_or(0, |b| b.len())
BodyLength(res) == IF res.body = None THEN 0 ELSE Len(res.body[1])

\* a Content-Length line left out when the map has a Content-Length entry
ComputedLengthLineUnlessSet(res) ==
    IF ContentLengthName \in DOMAIN res.headers THEN <<>>
    ELSE HeaderLine(ContentLengthName, Decimal(BodyLength(res)))

\* headers_str.push_str(&format!("Content-Length: {}\r\n", content_length))
ComputedLengthLine(res) == HeaderLine(ContentLengthName, Decimal(BodyLength(res)))

\* Response::into_bytes, the map yielding its entries in `order`
IntoBytes(res, order) ==
    StatusLine(res) \o HeaderLinesOf(res, order) \o ComputedLengthLine(res) \o CRLF
        \o (IF res.body = None THEN <<>> ELSE res.body[1])

\* the orders in which a HashMap may yield the keys S
Orders(S) ==
    {f \in [1..Cardinality(S) -> S] : \A a, b \in 1..Cardinality(S) : f[a] = f[b] => a = b}

---------------------------------------------------------------------------
(* The requests on the wire *)

\* request lines: well-formed, with a token more, with a token missing or
\* empty, and with a token that is not text
RequestLines ==
    { Str(<<"G", " ", "/", " ", "H">>),
      Str(<<"G", " ", "/", " ", "H", " ", "x">>),
      Str(<<" ", "/", " ", "H">>),
      Str(<<"G">>),
      Str(<<"G", " ">>),
      Str(<<"G", " ", "/">>),
      Str(<<"G", " ", "/", " ">>),
      Str(<<"G", " ", " ", "/", " ", "H">>),
      <<>>,
      NonText \o Str(<<" ", "/", " ", "H">>),
      Str(<<"G", " ">>) \o NonText \o Str(<<" ", "H">>),
      Str(<<"G", " ", "/", " ">>) \o NonText }

GoodRequestLine == Str(<<"G", " ", "/", " ", "H">>)

ContentLengthLine(v) == ContentLengthName \o <<COLON, SP>> \o v

PlainHeaderLines ==
    { Str(<<"H", ":", " ", "a">>),
      Str(<<"h", ":", "a">>),
      <<Ord("H"), COLON, SP, TAB, Ord("a"), SP, TAB>>,
      <<Ord("H"), COLON, SP, TAB>>,
      Str(<<"H", ":", "a", ":", "b">>),
      Str(<<"H", " ", "a">>),
      NonText \o Str(<<":", "a">>) }

ContentLengthLines ==
    { ContentLengthLine(Str(<<"0">>)),
      ContentLengthLine(Str(<<"2">>)),
      Str(<<"c", "o", "n", "t", "e", "n", "t", "-", "L", "E", "N", "G", "T", "H",
            ":", "1">>),
      ContentLengthLine(Str(<<"+", "1">>)),
      ContentLengthLine(<<>>),
      ContentLengthLine(Str(<<"2", " ">>)),
      ContentLengthLine(Decimal(UsizeMax)),
      ContentLengthLine(Decimal(UsizeMax + 1)),
      ContentLengthLine(NonText) }

HeaderLines == PlainHeaderLines \cup ContentLengthLines

\* the sequences over S of length at most n
SeqsUpTo(S, n) == UNION {[1..k -> S] : k \in 0..n}

\* the bytes after the blank line: n bytes, CR and LF and a non-text byte
\* among them
PayloadBytes == <<Ord("{"), CR, LF, 255, Ord("}")>>

Payload(n) == [i \in 1..n |-> PayloadBytes[((i - 1) % Len(PayloadBytes)) + 1]]

Terms == {"blank", "none", "cr", "cut"}

RawAlphabet == {Ord("G"), SP, CR, LF, COLON}

\* the pieces of one input: the request line, the header lines, how the
\* header section ends and the bytes after the blank line
Input(l, hs, t, n) == [line |-> l, hlines |-> hs, term |-> t, tail |-> Payload(n)]

FewHeaderLines ==
    { <<>>, <<Str(<<"H", ":", " ", "a">>)>>, <<Str(<<"H", " ", "a">>)>>,
      <<ContentLengthLine(Str(<<"2">>))>> }

RECURSIVE Lines(_)
Lines(ls) == IF ls = <<>> THEN <<>> ELSE ls[1] \o CRLF \o Lines(Tail(ls))

\* the bytes of an input
Assemble(i) ==
    LET lines == Lines(<<i.line>> \o i.hlines)
    IN  CASE i.term = "blank" -> lines \o CRLF \o i.tail
          [] i.term = "none" -> lines
          [] i.term = "cr" -> lines \o <<CR>>
          [] i.term = "cut" -> SubSeq(lines, 1, Len(lines) - 2)

\* the storage the caller passes: n slots of Header { name: "", value: &[] }
Storage(n) == [i \in 1..n |-> Header(<<>>, <<>>)]

NoResult == [kind |-> "None"]

---------------------------------------------------------------------------
(* What the claims say of an input, stated on its pieces *)

NoCrlf(l) == \A k \in 1..(Len(l) - 1) : ~(l[k] = CR /\ l[k + 1] = LF)

Spaces(l) == {k \in 1..Len(l) : l[k] = SP}

\* three non-empty tokens separated by single spaces, and nothing else
ThreeTokens(l) ==
    /\ Cardinality(Spaces(l)) = 2
    /\ 1 \notin Spaces(l)
    /\ Len(l) \notin Spaces(l)
    /\ \A k \in Spaces(l) : k + 1 \notin Spaces(l)

WellFormedRequestLine(l) == ThreeTokens(l) /\ IsUtf8(l) /\ NoCrlf(l)

Colons(h) == {k \in 1..Len(h) : h[k] = COLON}

\* the text before the first colon of a header line
LineName(h) == SubSeq(h, 1, Min(Colons(h)) - 1)

RECURSIVE StripLeading(_)
StripLeading(s) ==
    IF s # <<>> /\ s[1] \in {SP, TAB} THEN StripLeading(Tail(s)) ELSE s

\* the bytes after the first colon, without the leading spaces and tabs
LineValue(h) == StripLeading(SubSeq(h, Min(Colons(h)) + 1, Len(h)))

WellFormedHeaderLine(h) == Colons(h) # {} /\ IsUtf8(LineName(h)) /\ NoCrlf(h)

AllDigits(v) == v # <<>> /\ \A k \in 1..Len(v) : v[k] >= Digit0 /\ v[k] <= Digit9

RECURSIVE NumberOf(_)
NumberOf(v) ==
    IF v = <<>> THEN 0
    ELSE 10 * NumberOf(SubSeq(v, 1, Len(v) - 1)) + (v[Len(v)] - Digit0)

\* the header lines named Content-Length, whatever the case of the letters
LengthLines(hs) ==
    {k \in 1..Len(hs) : Colons(hs[k]) # {} /\
                        EqIgnoreAsciiCase(LineName(hs[k]), ContentLengthName)}

\* the first Content-Length line, if any, holds a decimal number of the word
DeclaresLength(hs) ==
    LengthLines(hs) # {} =>
        LET v == LineValue(hs[Min(LengthLines(hs))])
        IN  AllDigits(v) /\ Len(v) <= WordBits /\ NumberOf(v) <= UsizeMax

Declared(hs) ==
    IF LengthLines(hs) = {} THEN 0
    ELSE NumberOf(LineValue(hs[Min(LengthLines(hs))]))

RECURSIVE SumLen(_)
SumLen(ls) == IF ls = <<>> THEN 0 ELSE Len(ls[1]) + 2 + SumLen(Tail(ls))

\* the length of the header section, through the CRLF of the blank line
HeaderSectionLen(i) == SumLen(<<i.line>> \o i.hlines) + 2

WellFormedLines(i) ==
    /\ WellFormedRequestLine(i.line)
    /\ \A k \in 1..Len(i.hlines) : WellFormedHeaderLine(i.hlines[k])
    /\ DeclaresLength(i.hlines)

\* a request line, header lines, the blank line and a body of the declared
\* length, with or without bytes after it
WellFormedInput(i) ==
    /\ WellFormedLines(i)
    /\ i.term = "blank"
    /\ Declared(i.hlines) <= Len(i.tail)

---------------------------------------------------------------------------
(* Spec: handle_connection reads once and calls parse_request on what it read *)

Init ==
    /\ inp = NoResult
    /\ buffer = <<>>
    /\ headers \in {Storage(n) : n \in 0..MaxHeaderLines}
    /\ result = NoResult
    /\ borrowed = NoResult
    /\ owned = NoResult
    /\ response = NoResult
    /\ wire = <<>>
    /\ retried = FALSE
    /\ pc = "read"

\* what a client may send: a request line with few header lines, a good
\* request line with any header lines, or unstructured bytes
Sent(i) ==
    \/ \E l \in RequestLines, hs \in FewHeaderLines :
          \/ \E t \in Terms \ {"blank"} : i = Input(l, hs, t, 0)
          \/ \E n \in 0..MaxBody : i = Input(l, hs, "blank", n)
    \/ \E hs \in SeqsUpTo(HeaderLines, MaxHeaderLines) :
          \/ \E t \in Terms \ {"blank"} : i = Input(GoodRequestLine, hs, t, 0)
          \/ \E n \in 0..MaxBody : i = Input(GoodRequestLine, hs, "blank", n)
    \/ \E r \in SeqsUpTo(RawAlphabet, MaxRaw) : i = Input(r, <<>>, "cut", 0)

\* stream.read(&mut buffer): the bytes of one input arrive in one read
Read ==
    /\ pc = "read"
    /\ Sent(inp')
    /\ buffer' = Assemble(inp')
    /\ pc' = "parse"
    /\ UNCHANGED <<headers, result, borrowed, owned, response, wire, retried>>

\* http::parse_request(&buffer[..bytes_read], &mut headers)
Parse ==
    /\ pc = "parse"
    /\ \E overflow_checks \in BOOLEAN :
          \E r \in {ParseRequest(buffer, headers, overflow_checks)} :
              /\ result' = r.res
              /\ headers' = r.headers
    /\ pc' = "parsed"
    /\ UNCHANGED <<inp, buffer, borrowed, owned, response, wire, retried>>

Next == Read \/ Parse

Spec == Init /\ [][Next]_vars

---------------------------------------------------------------------------
(* SpecRescan: a caller that keeps the bytes of one well-formed request as
   they arrive and runs parse_request again, from the start of what it has,
   after each read *)

\* the header lines of the requests that arrive in pieces
RescanHeaderLines ==
    { Str(<<"H", ":", " ", "a">>),
      <<Ord("H"), COLON, SP, TAB, Ord("a"), SP, TAB>>,
      Str(<<"H", ":", "a", ":", "b">>),
      ContentLengthLine(Str(<<"2">>)),
      Str(<<"c", "o", "n", "t", "e", "n", "t", "-", "L", "E", "N", "G", "T", "H",
            ":", "1">>) }

\* the well-formed requests, their body of the declared length and nothing
\* after it
WellFormedRequests ==
    { i \in { Input(GoodRequestLine, hs, "blank", n) :
                hs \in SeqsUpTo(RescanHeaderLines, MaxHeaderLines), n \in 0..MaxBody } :
        WellFormedInput(i) /\ Declared(i.hlines) = Len(i.tail) }

InitRescan ==
    /\ inp \in WellFormedRequests
    /\ buffer = <<>>
    /\ headers \in {Storage(n) : n \in Len(inp.hlines)..MaxHeaderLines}
    /\ result = NoResult
    /\ borrowed = NoResult
    /\ owned = NoResult
    /\ response = NoResult
    /\ wire = <<>>
    /\ retried = FALSE
    /\ pc = "read"

\* a read appends the next bytes of the request, as many as have arrived
ReadMore ==
    /\ pc = "read"
    /\ \E n \in (Len(buffer) + 1)..Len(Assemble(inp)) :
          buffer' = SubSeq(Assemble(inp), 1, n)
    /\ pc' = "parse"
    /\ UNCHANGED <<inp, headers, result, borrowed, owned, response, wire, retried>>

\* parse_request on all the bytes kept so far, with the same storage; after
\* Partial the caller reads on
Rescan ==
    /\ pc = "parse"
    /\ \E overflow_checks \in BOOLEAN :
          \E r \in {ParseRequest(buffer, headers, overflow_checks)} :
              /\ result' = r.res
              /\ headers' = r.headers
              /\ pc' = IF r.res = Err("Partial") THEN "read" ELSE "done"
    /\ retried' = (retried \/ result = Err("Partial"))
    /\ UNCHANGED <<inp, buffer, borrowed, owned, response, wire>>

NextRescan == ReadMore \/ Rescan

SpecRescan == InitRescan /\ [][NextRescan]_vars

---------------------------------------------------------------------------
(* SpecAdapt: one call of HttpRequest::try_from on a borrowed Request *)

\* method texts: the nine verbs, and texts that are none of them
MethodTexts ==
    { GET_, POST_, PUT_, DELETE_, HEAD_, OPTIONS_, CONNECT_, PATCH_, TRACE_,
      Str(<<"g", "e", "t">>), Str(<<"G", "e", "t">>), Str(<<"G", "E", "T", "S">>),
      Str(<<"G", "E">>), Str(<<"B", "R", "E", "W">>) }

\* header names: one name in three spellings, a name with a two-byte letter
\* in both cases, and another name
HeaderNames ==
    { Str(<<"H", "o">>), Str(<<"h", "o">>), Str(<<"H", "O">>),
      <<195, 137>>, <<195, 169>>, Str(<<"x">>) }

HeaderValues == { Str(<<"a">>), NonText }

BorrowedHeaders == { Header(n, v) : n \in HeaderNames, v \in HeaderValues }

InitAdapt ==
    /\ inp = NoResult
    /\ buffer = <<>>
    /\ headers = <<>>
    /\ result = NoResult
    /\ \E m \in MethodTexts, hs \in SeqsUpTo(BorrowedHeaders, MaxHeaderLines),
          n \in {0, MaxBody} :
          borrowed = [method |-> m, path |-> Str(<<"/", "A">>),
                      version |-> HttpVersion, headers |-> hs, body |-> Payload(n)]
    /\ owned = NoResult
    /\ response = NoResult
    /\ wire = <<>>
    /\ retried = FALSE
    /\ pc = "adapt"

\* HttpRequest::try_from(borrowed_request)
Adapt ==
    /\ pc = "adapt"
    /\ owned' = TryFrom(borrowed)
    /\ pc' = "adapted"
    /\ UNCHANGED <<inp, buffer, headers, result, borrowed, response, wire, retried>>

NextAdapt == Adapt

SpecAdapt == InitAdapt /\ [][NextAdapt]_vars

---------------------------------------------------------------------------
(* SpecEncode: a Response is made by one of the constructors, the caller
   inserts headers into its map, and into_bytes serializes it *)

InitEncode ==
    /\ inp = NoResult
    /\ buffer = <<>>
    /\ headers = <<>>
    /\ result = NoResult
    /\ borrowed = NoResult
    /\ owned = NoResult
    /\ response = NoResult
    /\ wire = <<>>
    /\ retried = FALSE
    /\ pc = "new"

StatusCodes == {7, 204, 65535}

StatusTexts == { <<>>, Str(<<"N", "o", " ", "C">>) }

Bodies == { None, Some(<<>>), Some(Payload(2)), Some(Payload(MaxBody)) }

Built == UNCHANGED <<inp, buffer, headers, result, borrowed, owned, wire, retried>>

\* Response::new(status_code, status_text, body)
New ==
    /\ pc = "new"
    /\ \E c \in StatusCodes, t \in StatusTexts, b \in Bodies :
          response' = ResponseNew(c, t, b)
    /\ pc' = "built"
    /\ Built

\* Response::ok(body, content_type)
Ok ==
    /\ pc = "new"
    /\ \E n \in 0..MaxBody : response' = ResponseOk(Payload(n), TextHtml)
    /\ pc' = "built"
    /\ Built

\* Response::not_found()
NotFound ==
    /\ pc = "new"
    /\ response' = ResponseNotFound
    /\ pc' = "built"
    /\ Built

\* Response::bad_request()
BadRequest ==
    /\ pc = "new"
    /\ response' = ResponseBadRequest
    /\ pc' = "built"
    /\ Built

\* the caller's own headers, a Content-Length among them
CallerHeaders ==
    { <<ContentLengthName, Str(<<"9">>)>>, <<ContentLengthName, Str(<<"2">>)>>,
      <<ContentTypeName, Str(<<"t">>)>>, <<Str(<<"X">>), <<>>>> }

\* res.headers.insert(name, value), by the caller
SetHeader ==
    /\ pc = "built"
    /\ \E h \in CallerHeaders : response' = WithHeader(response, h[1], h[2])
    /\ pc' = "built"
    /\ Built

\* response.into_bytes()
Encode ==
    /\ pc = "built"
    /\ \E order \in Orders(DOMAIN response.headers) :
          wire' = IntoBytes(response, order)
    /\ pc' = "encoded"
    /\ UNCHANGED <<inp, buffer, headers, result, borrowed, owned, response, retried>>

NextEncode == New \/ Ok \/ NotFound \/ BadRequest \/ SetHeader \/ Encode

SpecEncode == InitEncode /\ [][NextEncode]_vars

---------------------------------------------------------------------------
(* The scanner's claims, under Spec *)

\* C1: a well-formed request with k header lines and storage for at least k
\* is parsed: k headers in the order of the buffer, bytes_consumed = length
\* of the header section + declared body length, and the body is the declared
\* bytes only, the bytes after them left alone.
C1_WellFormedParses ==
    (pc = "parsed" /\ WellFormedInput(inp) /\ Len(inp.hlines) <= Len(headers)) =>
        /\ result.kind = "Ok"
        /\ Len(result.request.headers) = Len(inp.hlines)
        /\ \A k \in 1..Len(inp.hlines) :
              result.request.headers[k] =
                  Header(LineName(inp.hlines[k]), LineValue(inp.hlines[k]))
        /\ result.consumed = HeaderSectionLen(inp) + Declared(inp.hlines)
        /\ result.request.body = SubSeq(inp.tail, 1, Declared(inp.hlines))

\* a request of two header lines with a two-byte body and a byte after it
C1_Witness ==
    /\ pc = "parsed"
    /\ WellFormedInput(inp)
    /\ Len(inp.hlines) = 2
    /\ Len(headers) = 2
    /\ Declared(inp.hlines) = 2
    /\ Len(inp.tail) = 3
    /\ result.kind = "Ok"
    /\ result.consumed = Len(buffer) - 1

\* the first three space-separated tokens of a request line are there and
\* are not empty, whatever follows them
TokensPresent(l) ==
    /\ l # <<>>
    /\ l[1] # SP
    /\ Cardinality(Spaces(l)) >= 2
    /\ LET s1 == Min(Spaces(l))
           s2 == Min(Spaces(l) \ {s1})
       IN  s1 + 1 < s2 /\ s2 < Len(l) /\ l[s2 + 1] # SP

ErrorKinds == {"Partial", "InvalidMethod", "InvalidPath", "InvalidVersion",
               "InvalidHeader", "TooManyHeaders"}

\* C2: a success never has a truncated body (the body is the declared bytes,
\* inside the buffer, and the headers fit the storage), and well-formed lines
\* (within the storage) without the blank line, or with fewer body bytes than
\* declared, give Partial.
C2_NeverTruncated ==
    pc = "parsed" =>
        /\ result.kind = "Ok" =>
              /\ Len(result.request.headers) <= Len(headers)
              /\ result.consumed <= Len(buffer)
              /\ result.request.body =
                    SubSeq(buffer, result.consumed - Len(result.request.body) + 1,
                           result.consumed)
              /\ WellFormedLines(inp) =>
                    Len(result.request.body) = Declared(inp.hlines)
        /\ ( /\ WellFormedLines(inp)
             /\ Len(inp.hlines) <= Len(headers)
             /\ (inp.term # "blank" \/ Len(inp.tail) < Declared(inp.hlines)) )
           => result = Err("Partial")

\* C3 as stated: more header lines before the blank line than the storage
\* has slots give TooManyHeaders.
C3_AsStated ==
    ( /\ pc = "parsed"
      /\ ThreeTokens(inp.line) /\ NoCrlf(inp.line)
      /\ inp.term = "blank"
      /\ Len(inp.hlines) > Len(headers) )
    => result = Err("TooManyHeaders")

\* C3, amended: when the request line has its tokens and the first N header
\* lines are well-formed, more than N header lines before the blank line give
\* TooManyHeaders at line N + 1, whatever that line holds: the storage holds
\* the N headers before it and the returned error holds nothing but its tag.
C3_TooManyHeaders ==
    ( /\ pc = "parsed"
      /\ TokensPresent(inp.line) /\ NoCrlf(inp.line)
      /\ inp.term = "blank"
      /\ Len(inp.hlines) > Len(headers)
      /\ \A k \in 1..Len(headers) : WellFormedHeaderLine(inp.hlines[k]) )
    => /\ result = Err("TooManyHeaders")
       /\ \A k \in 1..Len(headers) :
             headers[k] = Header(LineName(inp.hlines[k]), LineValue(inp.hlines[k]))

\* one slot, two header lines, the second without a colon
C3_Witness ==
    /\ pc = "parsed"
    /\ TokensPresent(inp.line)
    /\ inp.term = "blank"
    /\ Len(headers) = 1
    /\ Len(inp.hlines) = 2
    /\ WellFormedHeaderLine(inp.hlines[1])
    /\ Colons(inp.hlines[2]) = {}
    /\ result = Err("TooManyHeaders")
    /\ headers[1].name # <<>>

\* C4: every call returns Ok or one of the six errors, and never faults.
C4_NoFault ==
    pc = "parsed" =>
        \/ result.kind = "Ok"
        \/ result.kind = "Err" /\ result.err \in ErrorKinds

\* C7: on success, each header's name is the text before the first colon of
\* its line and its value the bytes after that colon without the leading
\* spaces and tabs, the trailing ones kept: name, colon, spaces and tabs, and
\* value make up the line.
C7_HeaderSplit ==
    (pc = "parsed" /\ result.kind = "Ok") =>
        /\ Len(result.request.headers) <= Len(inp.hlines)
        /\ \A k \in 1..Len(result.request.headers) :
              LET h == inp.hlines[k]
                  name == result.request.headers[k].name
                  value == result.request.headers[k].value
                  pad == SubSeq(h, Len(name) + 2, Len(h) - Len(value))
              IN  /\ COLON \notin {name[j] : j \in 1..Len(name)}
                  /\ h = name \o <<COLON>> \o pad \o value
                  /\ \A j \in 1..Len(pad) : pad[j] \in {SP, TAB}
                  /\ value # <<>> => value[1] \notin {SP, TAB}
                  /\ value = LineValue(h)

\* a value that keeps its trailing space and tab, and one of spaces and tabs
\* only
C7_Witness ==
    /\ pc = "parsed"
    /\ result.kind = "Ok"
    /\ Len(result.request.headers) = 2
    /\ \E k \in 1..2 :
          /\ inp.hlines[k] = <<Ord("H"), COLON, SP, TAB, Ord("a"), SP, TAB>>
          /\ result.request.headers[k].value = <<Ord("a"), SP, TAB>>
    /\ \E k \in 1..2 :
          /\ inp.hlines[k] = <<Ord("H"), COLON, SP, TAB>>
          /\ result.request.headers[k].value = <<>>

\* the request line of the input is complete in the buffer
LineComplete(i) == NoCrlf(i.line) /\ (i.term # "cut" \/ i.hlines # <<>>)

\* C9: a missing or empty method gives InvalidMethod, else a missing or empty
\* path InvalidPath, else a missing or empty version InvalidVersion, and a
\* request line that is not exactly three tokens is never a success.
C9_RequestLine ==
    (pc = "parsed" /\ LineComplete(inp)) =>
        LET l == inp.line
            sp == Spaces(l)
            noMethod == l = <<>> \/ l[1] = SP
            s1 == Min(sp)
            noPath == sp = {} \/ s1 = Len(l) \/ l[s1 + 1] = SP
            s2 == Min(sp \ {s1})
            noVersion == Cardinality(sp) < 2 \/ s2 = Len(l) \/ l[s2 + 1] = SP
        IN  /\ noMethod => result = Err("InvalidMethod")
            /\ (~noMethod /\ noPath) => result = Err("InvalidPath")
            /\ (~noMethod /\ ~noPath /\ noVersion) => result = Err("InvalidVersion")
            /\ result.kind = "Ok" => ThreeTokens(l)

\* C10: the first header named Content-Length, in any case of the letters,
\* decides the body length, the later ones being ignored; the length is 0
\* without one; a first one whose value is not text or not digits only gives
\* InvalidHeader.
C10_ContentLength ==
    ( /\ pc = "parsed"
      /\ WellFormedRequestLine(inp.line)
      /\ inp.term = "blank"
      /\ Len(inp.hlines) <= Len(headers)
      /\ \A k \in 1..Len(inp.hlines) : WellFormedHeaderLine(inp.hlines[k]) )
    => LET first == Min(LengthLines(inp.hlines))
           v == LineValue(inp.hlines[first])
       IN  IF LengthLines(inp.hlines) = {}
           THEN result.kind = "Ok" /\ result.request.body = <<>>
           ELSE IF ~IsUtf8(v) \/ ~AllDigits(v)
           THEN result = Err("InvalidHeader")
           ELSE result.kind = "Ok" => Len(result.request.body) = NumberOf(v)

---------------------------------------------------------------------------
(* The claim on scanning again, under SpecRescan *)

\* C6: while bytes of a well-formed request are missing every scan returns
\* Partial; the scan of all n bytes succeeds with bytes_consumed = n and the
\* request a single scan of the complete buffer gives, however the bytes
\* were split over the reads before.
C6_Rescan ==
    (pc \in {"read", "done"} /\ result # NoResult) =>
        IF Len(buffer) < Len(Assemble(inp))
        THEN result = Err("Partial")
        ELSE /\ result.kind = "Ok"
             /\ result.consumed = Len(Assemble(inp))
             /\ result.request.method \o <<SP>> \o result.request.path \o <<SP>>
                    \o result.request.version = inp.line
             /\ result.request.headers =
                    [k \in 1..Len(inp.hlines) |->
                        Header(LineName(inp.hlines[k]), LineValue(inp.hlines[k]))]
             /\ result.request.body = inp.tail
             /\ \A oc \in BOOLEAN :
                    result = ParseRequest(Assemble(inp), Storage(Len(headers)), oc).res

\* the request of two header lines and a two-byte body is parsed after an
\* earlier scan returned Partial
C6_Witness ==
    /\ pc = "done"
    /\ retried
    /\ Len(inp.hlines) = 2
    /\ Len(inp.tail) = 2
    /\ result.kind = "Ok"
    /\ result.consumed = Len(buffer)

---------------------------------------------------------------------------
(* The adapter's claim, under SpecAdapt *)

\* the nine verbs and the variants they are mapped to
Verbs ==
    { <<GET_, "Get">>, <<POST_, "Post">>, <<PUT_, "Put">>, <<DELETE_, "Delete">>,
      <<HEAD_, "Head">>, <<OPTIONS_, "Options">>, <<CONNECT_, "Connect">>,
      <<PATCH_, "Patch">>, <<TRACE_, "Trace">> }

\* the input headers whose lower-cased name is key
Named(hs, key) == {k \in 1..Len(hs) : ToLowercase(hs[k].name) = key}

\* C8: try_from fails with InvalidMethod unless the method text is, letter for
\* letter, one of the nine verbs; else it succeeds with that verb's variant,
\* the path, version and body of the borrowed request, and a map whose keys
\* are the lower-cased header names, each with the value of the last header
\* of that lower-cased name.
C8_Adapter ==
    pc = "adapted" =>
        IF \A v \in Verbs : v[1] # borrowed.method
        THEN owned = Err("InvalidMethod")
        ELSE /\ owned.kind = "Ok"
             /\ <<borrowed.method, owned.request.method>> \in Verbs
             /\ owned.request.path = borrowed.path
             /\ owned.request.version = borrowed.version
             /\ owned.request.body = borrowed.body
             /\ DOMAIN owned.request.headers =
                    {ToLowercase(borrowed.headers[k].name) :
                        k \in 1..Len(borrowed.headers)}
             /\ \A key \in DOMAIN owned.request.headers :
                    \E k \in Named(borrowed.headers, key) :
                        /\ \A j \in Named(borrowed.headers, key) : j <= k
                        /\ owned.request.headers[key] = borrowed.headers[k].value

\* a POST whose two headers have the same lower-cased name and different
\* values
C8_Witness ==
    /\ pc = "adapted"
    /\ borrowed.method = POST_
    /\ owned.kind = "Ok"
    /\ owned.request.method = "Post"
    /\ Len(borrowed.headers) = 2
    /\ borrowed.headers[1].name # borrowed.headers[2].name
    /\ borrowed.headers[1].value # borrowed.headers[2].value
    /\ DOMAIN owned.request.headers = {Str(<<"h", "o">>)}
    /\ owned.request.headers[Str(<<"h", "o">>)] = borrowed.headers[2].value

---------------------------------------------------------------------------
(* The encoder's claim, under SpecEncode *)

\* s from its a-th byte starts with t
StartsAt(s, a, t) == a + Len(t) - 1 <= Len(s) /\ SubSeq(s, a, a + Len(t) - 1) = t

\* a decimal numeral of n, without a sign and, but for 0, without leading 0
Numeral(d, n) ==
    /\ AllDigits(d)
    /\ Len(d) > 1 => d[1] # Digit0
    /\ NumberOf(d) = n

\* the header lines of the map in the order f
RECURSIVE MapLines(_, _, _)
MapLines(map, f, k) ==
    IF k > Len(f) THEN <<>>
    ELSE f[k] \o <<COLON, SP>> \o map[f[k]] \o CRLF \o MapLines(map, f, k + 1)

\* C5: the bytes are the status line HTTP/1.1 <code> <text> CRLF, one line
\* <Name>: <Value> CRLF for each entry of the map in some order, the line
\* Content-Length: <n> CRLF with n the length of the body (0 without a body),
\* a blank line and the body; the Content-Length line is there also when the
\* map has an entry of that name, whose line is there too.
C5_Encoding ==
    pc = "encoded" =>
        LET body == IF response.body = None THEN <<>> ELSE response.body[1]
            keys == DOMAIN response.headers
        IN  \E c \in 1..5, l \in 1..5 :
                LET code == SubSeq(wire, Len(HttpVersion) + 2, Len(HttpVersion) + 1 + c)
                    head == HttpVersion \o <<SP>> \o code \o <<SP>>
                                \o response.status_text \o CRLF
                    len == SubSeq(wire, Len(wire) - Len(body) - 3 - l,
                                  Len(wire) - Len(body) - 4)
                    foot == ContentLengthName \o <<COLON, SP>> \o len \o CRLF
                                \o CRLF \o body
                IN  /\ Numeral(code, response.status_code)
                    /\ Numeral(len, Len(body))
                    /\ \E f \in Orders(keys) :
                          wire = head \o MapLines(response.headers, f, 1) \o foot

\* a response with a body whose map has a Content-Length entry of another
\* value and one more entry: both Content-Length lines are in the bytes
C5_Witness ==
    /\ pc = "encoded"
    /\ response.body # None
    /\ Len(response.body[1]) = MaxBody
    /\ Cardinality(DOMAIN response.headers) = 2
    /\ ContentLengthName \in DOMAIN response.headers
    /\ response.headers[ContentLengthName] = Str(<<"9">>)
    /\ \E a, b \in 1..Len(wire) :
          /\ a < b
          /\ StartsAt(wire, a, ContentLengthName \o <<COLON, SP>> \o Str(<<"9">>) \o CRLF)
          /\ StartsAt(wire, b, ContentLengthName \o <<COLON, SP>>
                                  \o Decimal(MaxBody) \o CRLF \o CRLF)

====
